---- MODULE Spec2Model ----
(***************************************************************************)
(* State-machine model of app.py, the Streamlit "AI Learning Hub".         *)
(*                                                                         *)
(* The program's state is st.session_state; one action is one run of the   *)
(* script with one button pressed (or one page rendered), including the    *)
(* run that st.rerun() starts afterwards.  The Python functions are        *)
(* operators over a machine record m:                                      *)
(*    m.ss        st.session_state                                         *)
(*    m.run       what the current script run has done so far (history     *)
(*                variable: backend calls, the rate limiter's snapshot)    *)
(*    m.grants    the times of the permits granted in the last 60 seconds  *)
(*                (history variable)                                       *)
(*    m.model_key the api key under which working_model was memoized       *)
(*                (history variable)                                       *)
(*    m.key_set_by the button that stored the api key (history variable)   *)
(* Time is time.time() in ticks of 1/Second seconds.  Quiz scores are      *)
(* exact: a score is kept in units of 1/ScoreScale percent.                *)
(***************************************************************************)
EXTENDS Integers, Sequences, FiniteSets, TLC

VARIABLES session_state, now, backend, run, grants, model_key, key_set_by

vars == <<session_state, now, backend, run, grants, model_key, key_set_by>>

(***************************************************************************)
(* Bounds of the model.                                                    *)
(***************************************************************************)
StartTime == 200      \* time.time() when the session starts, in ticks (any
                      \* time later than 60 seconds)
MaxTime == 330        \* the clock stops advancing here (ticks)
MaxCount == 11        \* cap of request_count: one past the quota
MaxCourses == 1       \* cap of len(courses) per user
MaxHistory == 2       \* cap of len(quiz_history) per user
MaxText == 4          \* the longest response.text, in tokens

(***************************************************************************)
(* Program constants.                                                      *)
(***************************************************************************)
Second == 2           \* time.time() is a float: the clock counts ticks of
                      \* half a second
Window == 60 * Second \* a rate window, in ticks
Quota == 10           \* "Max 10 requests per minute"
ScoreScale == 2520    \* lcm(1..10): (correct / n) * 100 is exact for n <= 10

(***************************************************************************)
(* Python values.  None and a missing session_state key are strings or     *)
(* records of their own, so that every field keeps one TLA+ type.          *)
(***************************************************************************)
None == "<None>"
Missing == "<missing>"

NoneVal == [kind |-> "None"]
MissingVal == [kind |-> "missing"]

\* bool(x) of a string-valued field (api_key, working_model, a user name)
TruthyStr(x) == x \notin {None, Missing, ""}

\* bool(v) of a decoded JSON value or None
Truthy(v) ==
  CASE v.kind = "None" -> FALSE
    [] v.kind = "missing" -> FALSE
    [] v.kind = "object" -> DOMAIN v.val # {}
    [] v.kind = "array" -> Len(v.val) > 0
    [] OTHER -> TRUE

(***************************************************************************)
(* Text.  A Python string the backend returns is a sequence of tokens:     *)
(* " " is white space, "FENCE" the three back-quotes of a fence marker,    *)
(* "json" and "python" language tags (so a json fence is the two tokens    *)
(* "FENCE", "json"), and every other token is a run of characters without  *)
(* white space or back-quotes.                                             *)
(***************************************************************************)
WS == " "
Fence == "FENCE"

RECURSIVE lstrip(_)
lstrip(text) ==
  IF text # <<>> /\ Head(text) = WS THEN lstrip(Tail(text)) ELSE text

RECURSIVE rstrip(_)
rstrip(text) ==
  IF text # <<>> /\ text[Len(text)] = WS
  THEN rstrip(SubSeq(text, 1, Len(text) - 1))
  ELSE text

\* str.strip()
strip(text) == rstrip(lstrip(text))

\* text.startswith(FENCE + 'json')
startswith_fence_json(text) ==
  Len(text) >= 2 /\ text[1] = Fence /\ text[2] = "json"

\* text.startswith(FENCE)
startswith_fence(text) == Len(text) >= 1 /\ text[1] = Fence

\* text.endswith(FENCE)
endswith_fence(text) == Len(text) >= 1 /\ text[Len(text)] = Fence

\* clean_response that removes a trailing fence only after a leading one
clean_response_trailing_if_leading(raw) ==
  LET t0 == strip(raw)
      t1 == IF startswith_fence_json(t0) THEN SubSeq(t0, 3, Len(t0)) ELSE t0
      t2 == IF startswith_fence(t1) THEN Tail(t1) ELSE t1
      t3 == IF startswith_fence(t0) /\ endswith_fence(t2)
            THEN SubSeq(t2, 1, Len(t2) - 1) ELSE t2
  IN strip(t3)

\* clean_response that knows the bare fence only, not the json tag
clean_response_bare_fence_only(raw) ==
  LET t0 == strip(raw)
      t2 == IF startswith_fence(t0) THEN Tail(t0) ELSE t0
      t3 == IF endswith_fence(t2) THEN SubSeq(t2, 1, Len(t2) - 1) ELSE t2
  IN strip(t3)

\* "Clean the response to extract JSON": the three ifs of the generate
\* functions, applied to response.text.strip(); the result is what json.loads
\* is given (text.strip()).
clean_response(raw) ==
  LET t0 == strip(raw)
      t1 == IF startswith_fence_json(t0) THEN SubSeq(t0, 3, Len(t0)) ELSE t0
      t2 == IF startswith_fence(t1) THEN Tail(t1) ELSE t1
      t3 == IF endswith_fence(t2) THEN SubSeq(t2, 1, Len(t2) - 1) ELSE t2
  IN strip(t3)

(***************************************************************************)
(* JSON documents.  A token that is the text of a complete JSON document   *)
(* decodes to the value below; every other text makes json.loads raise.    *)
(* A decoded value is [kind, val]: an object is a function from its keys.  *)
(***************************************************************************)
Obj(fields) == [kind |-> "object", val |-> fields]
Arr(items) == [kind |-> "array", val |-> items]

Module1 == [name |-> "Basics", topics |-> <<"Syntax">>, duration |-> "1 day"]

CourseDoc ==
  Obj([title |-> "Course", description |-> "About", modules |-> <<Module1>>,
       learning_outcomes |-> <<"Outcome">>, prerequisites |-> <<"None">>])

CourseNoTitleDoc ==
  Obj([description |-> "About", modules |-> <<Module1>>,
       learning_outcomes |-> <<"Outcome">>, prerequisites |-> <<"None">>])

\* an option is its characters: a letter tag, then the rest
OptA == <<"A", ") one">>
OptB == <<"B", ") two">>

Question(letter) ==
  [question |-> "Q?", options |-> <<OptA, OptB>>, correct |-> letter,
   explanation |-> "because"]

Quiz3Doc == Obj([questions |-> <<Question("A"), Question("B"), Question("A")>>])
Quiz1Doc == Obj([questions |-> <<Question("B")>>])
Quiz0Doc == Obj([questions |-> <<>>])
QuizNoQuestionsDoc == Obj([quiz |-> <<Question("A")>>])

RecsDoc == Arr(<<"Rust", "Go", "SQL", "Linux", "Git">>)

JsonTokens ==
  {"{course}", "{course-no-title}", "{quiz3}", "{quiz1}", "{quiz0}",
   "{quiz-no-questions}", "[recs]"}

JsonDoc(tok) ==
  CASE tok = "{course}" -> CourseDoc
    [] tok = "{course-no-title}" -> CourseNoTitleDoc
    [] tok = "{quiz3}" -> Quiz3Doc
    [] tok = "{quiz1}" -> Quiz1Doc
    [] tok = "{quiz0}" -> Quiz0Doc
    [] tok = "{quiz-no-questions}" -> QuizNoQuestionsDoc
    [] tok = "[recs]" -> RecsDoc

\* json.loads(text): [ok |-> FALSE] stands for the JSONDecodeError, error
\* for str(e)
json_loads(text) ==
  LET t == strip(text)
  IN IF Len(t) = 1 /\ t[1] \in JsonTokens
     THEN [ok |-> TRUE, value |-> JsonDoc(t[1]), error |-> None]
     ELSE [ok |-> FALSE, value |-> NoneVal, error |-> "JSONDecodeError"]

(***************************************************************************)
(* The machine record and the record of one script run.                    *)
(***************************************************************************)
\* what a script run has done (history): nothing yet
NewRun(handler, t) ==
  [handler |-> handler,
   t |-> t,                  \* time.time() of the script run
   op |-> "none",            \* the ContentGenerator operation it ran,
   op_count0 |-> 0,          \* from this request_count
   op_start0 |-> 0,          \* and this last_request_time
   outcome |-> "none",       \* how that operation ended
   permit |-> FALSE,         \* the operation was granted a permit
   rl_called |-> FALSE,      \* rate_limit_check ran, from this state:
   rl_count0 |-> 0, rl_start0 |-> 0, rl_t |-> 0, rl_allowed |-> FALSE,
   gwm_called |-> FALSE,     \* get_working_model ran, from this memo:
   gwm_memo0 |-> Missing, gwm_listed |-> FALSE, gwm_models |-> <<>>,
   gwm_ret |-> None,
   listCalls |-> 0,          \* genai.list_models() calls
   genCalls |-> 0,           \* model.generate_content() calls
   ungated |-> 0,            \* those made by an operation without a permit
   gwm_error |-> None,       \* the error the listing gave get_working_model
   history |-> <<>>,         \* the user_history given to get_recommendations
   decoded |-> MissingVal,   \* what json.loads returned to the operation
   ret |-> MissingVal,       \* what the operation returned
   messages |-> {},          \* the st.error and st.warning texts shown
   raised |-> FALSE,         \* an exception ended the script run
   quiz_by |-> None]         \* the user who generated the current quiz

Machine ==
  [ss |-> session_state, run |-> run, grants |-> grants,
   model_key |-> model_key, key_set_by |-> key_set_by]

\* a function's result: the machine it leaves and the value it returns
R(m, v) == [m |-> m, ret |-> v]

\* the script run ends with an uncaught exception
Raise(m) == [m EXCEPT !.run.raised = TRUE]

\* st.error(text), st.warning(text); a text is <<fixed part, detail>>
Show(m, text) == [m EXCEPT !.run.messages = @ \cup {text}]

(***************************************************************************)
(* Helper functions (app.py, "Helper functions").                          *)
(***************************************************************************)
\* hashlib.sha256(password.encode()).hexdigest(): injective on the passwords
hash_password(password) == <<"sha256", password>>

NewUserData ==
  [courses |-> <<>>, quiz_history |-> <<>>, learning_preferences |-> <<>>,
   total_score |-> 0, courses_completed |-> 0, quizzes_taken |-> 0,
   learning_streak |-> 0]

initialize_user_data(ss, username) ==
  IF username \notin DOMAIN ss.user_data
  THEN [ss EXCEPT !.user_data = (username :> NewUserData) @@ @]
  ELSE ss

\* genai.configure() only stores the key: no call to the backend
configure_gemini(ss) == TruthyStr(ss.api_key)

Preferred ==
  <<"gemini-1.5-flash-8b", "gemini-1.5-flash", "gemini-2.0-flash-exp",
    "gemini-1.5-pro", "gemini-pro">>

\* m.name.replace('models/', '') of a name kept as [prefix, base]
strip_prefix(name) == name.base

RECURSIVE listed_models(_)
listed_models(entries) ==
  IF entries = <<>> THEN <<>>
  ELSE LET e == Head(entries)
       IN (IF "generateContent" \in e.methods
           THEN <<strip_prefix(e.name)>> ELSE <<>>)
          \o listed_models(Tail(entries))

\* returns (models, error); none stands for models = None
test_api_key_and_list_models(m, be) ==
  IF ~TruthyStr(m.ss.api_key)
  THEN R(m, [none |-> TRUE, models |-> <<>>, error |-> "No API key provided"])
  ELSE LET m1 == [m EXCEPT !.run.listCalls = @ + 1]
       IN IF be.listing.ok
          THEN R(m1, [none |-> FALSE,
                      models |-> listed_models(be.listing.entries),
                      error |-> None])
          ELSE R(m1, [none |-> TRUE, models |-> <<>>,
                      error |-> be.listing.error])

\* "for pref in preferred: if pref in available_models", from index i on
RECURSIVE first_preferred(_, _)
first_preferred(models, i) ==
  IF i > Len(Preferred) THEN None
  ELSE IF \E j \in 1..Len(models) : models[j] = Preferred[i]
       THEN Preferred[i]
       ELSE first_preferred(models, i + 1)

\* select_model that takes the first catalog entry that is preferred
RECURSIVE first_in_catalog(_, _)
first_in_catalog(models, j) ==
  IF j > Len(models) THEN None
  ELSE IF \E i \in 1..Len(Preferred) : Preferred[i] = models[j]
       THEN models[j]
       ELSE first_in_catalog(models, j + 1)

select_model_catalog_order(models) ==
  IF models = <<>> THEN None
  ELSE IF first_in_catalog(models, 1) # None THEN first_in_catalog(models, 1)
       ELSE models[1]

select_model(models) ==
  IF models = <<>> THEN None
  ELSE IF first_preferred(models, 1) # None THEN first_preferred(models, 1)
       ELSE models[1]

\* get_working_model that does not look at the memoized model
get_working_model_no_memo(m, be) ==
  LET m0 == [m EXCEPT !.run.gwm_called = TRUE,
                      !.run.gwm_memo0 = m.ss.working_model,
                      !.run.gwm_listed = FALSE,
                      !.run.gwm_models = <<>>]
      r == test_api_key_and_list_models(m0, be)
      listed == r.m.run.listCalls > m0.run.listCalls
      chosen == select_model(r.ret.models)
      m1 == [r.m EXCEPT !.run.gwm_listed = listed,
                        !.run.gwm_models = r.ret.models,
                        !.run.gwm_error = r.ret.error,
                        !.run.gwm_ret = chosen]
  IN IF chosen # None
     THEN R([m1 EXCEPT !.ss.working_model = chosen,
                       !.model_key = m.ss.api_key], chosen)
     ELSE R(m1, None)

\* get_working_model that memoizes a failed resolution as "unavailable"
get_working_model_memoizes_failure(m, be) ==
  LET m0 == [m EXCEPT !.run.gwm_called = TRUE,
                      !.run.gwm_memo0 = m.ss.working_model,
                      !.run.gwm_listed = FALSE,
                      !.run.gwm_models = <<>>]
  IN IF TruthyStr(m.ss.working_model)
     THEN R([m0 EXCEPT !.run.gwm_ret =
                         IF m.ss.working_model = "unavailable" THEN None
                         ELSE m.ss.working_model],
            IF m.ss.working_model = "unavailable" THEN None
            ELSE m.ss.working_model)
     ELSE LET r == test_api_key_and_list_models(m0, be)
              listed == r.m.run.listCalls > m0.run.listCalls
              chosen == select_model(r.ret.models)
              m1 == [r.m EXCEPT !.run.gwm_listed = listed,
                                !.run.gwm_models = r.ret.models,
                                !.run.gwm_error = r.ret.error,
                                !.run.gwm_ret = chosen]
          IN IF chosen # None
             THEN R([m1 EXCEPT !.ss.working_model = chosen,
                               !.model_key = m.ss.api_key], chosen)
             ELSE R([m1 EXCEPT !.ss.working_model = "unavailable"], None)

get_working_model(m, be) ==
  LET m0 == [m EXCEPT !.run.gwm_called = TRUE,
                      !.run.gwm_memo0 = m.ss.working_model,
                      !.run.gwm_listed = FALSE,
                      !.run.gwm_models = <<>>]
  IN IF TruthyStr(m.ss.working_model)
     THEN R([m0 EXCEPT !.run.gwm_ret = m.ss.working_model],
            m.ss.working_model)
     ELSE LET r == test_api_key_and_list_models(m0, be)
              listed == r.m.run.listCalls > m0.run.listCalls
              chosen == select_model(r.ret.models)
              m1 == [r.m EXCEPT !.run.gwm_listed = listed,
                                !.run.gwm_models = r.ret.models,
                                !.run.gwm_error = r.ret.error,
                                !.run.gwm_ret = chosen]
          IN IF chosen # None
             THEN R([m1 EXCEPT !.ss.working_model = chosen,
                               !.model_key = m.ss.api_key], chosen)
             ELSE R(m1, None)

\* int(x) of a time x: the whole seconds, truncated towards zero
int(x) == IF x >= 0 THEN x \div Second ELSE -((-x) \div Second)

\* the permits of the last 60 seconds, as seen at time t
recent(g, t) == SelectSeq(g, LAMBDA x : x > t - Window)

\* rate_limit_check with the quota test off by one (> instead of >=)
rate_limit_check_off_by_one(m, t) ==
  LET s0 == m.ss
      s1 == IF t - s0.last_request_time > 60 * Second
            THEN [s0 EXCEPT !.request_count = 0, !.last_request_time = t]
            ELSE s0
      wait_time == 60 * Second - (t - s1.last_request_time)
      m1 == [m EXCEPT !.ss = s1,
                      !.run.rl_called = TRUE,
                      !.run.rl_count0 = s0.request_count,
                      !.run.rl_start0 = s0.last_request_time,
                      !.run.rl_t = t]
  IN IF s1.request_count > 10 /\ wait_time > 0
     THEN R(Show([m1 EXCEPT !.run.rl_allowed = FALSE],
                 <<"Rate limit protection: Please wait", int(wait_time)>>),
            FALSE)
     ELSE R([m1 EXCEPT !.ss.request_count = @ + 1,
                       !.run.rl_allowed = TRUE,
                       !.run.permit = TRUE,
                       !.grants = Append(recent(@, t), t)], TRUE)

\* rate_limit_check whose reset forgets to move last_request_time
rate_limit_check_keeps_start(m, t) ==
  LET s0 == m.ss
      s1 == IF t - s0.last_request_time > 60 * Second
            THEN [s0 EXCEPT !.request_count = 0]
            ELSE s0
      wait_time == 60 * Second - (t - s1.last_request_time)
      m1 == [m EXCEPT !.ss = s1,
                      !.run.rl_called = TRUE,
                      !.run.rl_count0 = s0.request_count,
                      !.run.rl_start0 = s0.last_request_time,
                      !.run.rl_t = t]
  IN IF s1.request_count >= 10 /\ wait_time > 0
     THEN R(Show([m1 EXCEPT !.run.rl_allowed = FALSE],
                 <<"Rate limit protection: Please wait", int(wait_time)>>),
            FALSE)
     ELSE R([m1 EXCEPT !.ss.request_count = @ + 1,
                       !.run.rl_allowed = TRUE,
                       !.run.permit = TRUE,
                       !.grants = Append(recent(@, t), t)], TRUE)

\* rate_limit_check that reports the seconds elapsed, not the seconds left
rate_limit_check_reports_elapsed(m, t) ==
  LET s0 == m.ss
      s1 == IF t - s0.last_request_time > 60 * Second
            THEN [s0 EXCEPT !.request_count = 0, !.last_request_time = t]
            ELSE s0
      wait_time == 60 * Second - (t - s1.last_request_time)
      m1 == [m EXCEPT !.ss = s1,
                      !.run.rl_called = TRUE,
                      !.run.rl_count0 = s0.request_count,
                      !.run.rl_start0 = s0.last_request_time,
                      !.run.rl_t = t]
  IN IF s1.request_count >= 10 /\ wait_time > 0
     THEN R(Show([m1 EXCEPT !.run.rl_allowed = FALSE],
                 <<"Rate limit protection: Please wait",
                   int(t - s1.last_request_time)>>),
            FALSE)
     ELSE R([m1 EXCEPT !.ss.request_count = @ + 1,
                       !.run.rl_allowed = TRUE,
                       !.run.permit = TRUE,
                       !.grants = Append(recent(@, t), t)], TRUE)

rate_limit_check(m, t) ==
  LET s0 == m.ss
      s1 == IF t - s0.last_request_time > 60 * Second
            THEN [s0 EXCEPT !.request_count = 0, !.last_request_time = t]
            ELSE s0
      wait_time == 60 * Second - (t - s1.last_request_time)
      m1 == [m EXCEPT !.ss = s1,
                      !.run.rl_called = TRUE,
                      !.run.rl_count0 = s0.request_count,
                      !.run.rl_start0 = s0.last_request_time,
                      !.run.rl_t = t]
  IN IF s1.request_count >= 10 /\ wait_time > 0
     THEN R(Show([m1 EXCEPT !.run.rl_allowed = FALSE],
                 <<"Rate limit protection: Please wait", int(wait_time)>>),
            FALSE)
     ELSE R([m1 EXCEPT !.ss.request_count = @ + 1,
                       !.run.rl_allowed = TRUE,
                       !.run.permit = TRUE,
                       !.grants = Append(recent(@, t), t)], TRUE)

(***************************************************************************)
(* The three generate operations.                                          *)
(***************************************************************************)
StartOp(m, name) ==
  [m EXCEPT !.run.op = name, !.run.outcome = "none", !.run.permit = FALSE,
            !.run.op_count0 = m.ss.request_count,
            !.run.op_start0 = m.ss.last_request_time]

EndOp(m, outcome) == [m EXCEPT !.run.outcome = outcome]

\* return v: the operation ends with this outcome and hands v to its caller
Return(m, outcome, v) == R([EndOp(m, outcome) EXCEPT !.run.ret = v], v)

\* model.generate_content(prompt): one content-generation call
generate_content(m) ==
  [m EXCEPT !.run.genCalls = @ + 1,
            !.run.ungated = @ + (IF m.run.permit THEN 0 ELSE 1)]

\* response.text cleaned and decoded: lines 238-245, 298-305, 335-342
\* of the answer the backend gives to a prompt of this kind
decode_response(be, kind) ==
  IF be.reply[kind].ok
  THEN json_loads(clean_response(be.reply[kind].text))
  ELSE [ok |-> FALSE, value |-> NoneVal, error |-> be.reply[kind].error]

\* datetime.now().strftime("%Y-%m-%d"), ("%Y-%m-%d %H:%M")
date_of(t) == t \div (86400 * Second)
minute_of(t) == t \div (60 * Second)

MsgNoModel == <<"No working model found. Please check your API key.", None>>

\* course_data['created_date'] = ..., ['user_topic'], ['level']: lines 246-248
stamp(value, t, topic, level) ==
  Obj(("created_date" :> date_of(t)) @@ ("user_topic" :> topic) @@
      ("level" :> level) @@ value.val)

\* lines 236-252 of generate_course: the call, the decoding, the stamps
course_from_backend(m, t, be, topic, level) ==
  LET d == decode_response(be, "course")
      m1 == [generate_content(m) EXCEPT !.run.decoded = d.value]
  IN IF d.ok /\ d.value.kind = "object"
     THEN Return(m1, "ok", stamp(d.value, t, topic, level))
     ELSE Return(Show(m1, <<"Error generating course",
                            IF d.ok THEN "TypeError" ELSE d.error>>),
                 "error", NoneVal)

\* generate_course that goes on after the rate limiter's denial
generate_course_ignores_denial(m, t, be, topic, level) ==
  LET m0 == StartOp(m, "generate_course")
  IN IF ~configure_gemini(m0.ss) THEN Return(m0, "no_key", NoneVal)
     ELSE LET rl == rate_limit_check(m0, t)
              wm == get_working_model(rl.m, be)
          IN IF ~TruthyStr(wm.ret)
             THEN Return(Show(wm.m, MsgNoModel), "no_model", NoneVal)
             ELSE course_from_backend(wm.m, t, be, topic, level)

generate_course(m, t, be, topic, level) ==
  LET m0 == StartOp(m, "generate_course")
  IN IF ~configure_gemini(m0.ss) THEN Return(m0, "no_key", NoneVal)
     ELSE LET rl == rate_limit_check(m0, t)
          IN IF ~rl.ret THEN Return(rl.m, "rate_limited", NoneVal)
             ELSE LET wm == get_working_model(rl.m, be)
                  IN IF ~TruthyStr(wm.ret)
                     THEN Return(Show(wm.m, MsgNoModel), "no_model", NoneVal)
                     ELSE course_from_backend(wm.m, t, be, topic, level)

\* quiz_from_backend that asks the backend once more when the decoding fails
quiz_from_backend_retries(m, be) ==
  LET d == decode_response(be, "quiz")
      m1 == [generate_content(m) EXCEPT !.run.decoded = d.value]
  IN IF d.ok THEN Return(m1, "ok", d.value)
     ELSE Return(Show(generate_content(m1),
                      <<"Error generating quiz", d.error>>),
                 "error", NoneVal)

\* lines 296-308 of generate_quiz: the call and the decoding
quiz_from_backend(m, be) ==
  LET d == decode_response(be, "quiz")
      m1 == [generate_content(m) EXCEPT !.run.decoded = d.value]
  IN IF d.ok THEN Return(m1, "ok", d.value)
     ELSE Return(Show(m1, <<"Error generating quiz", d.error>>),
                 "error", NoneVal)

generate_quiz(m, t, be) ==
  LET m0 == StartOp(m, "generate_quiz")
  IN IF ~configure_gemini(m0.ss) THEN Return(m0, "no_key", NoneVal)
     ELSE LET rl == rate_limit_check(m0, t)
          IN IF ~rl.ret THEN Return(rl.m, "rate_limited", NoneVal)
             ELSE LET wm == get_working_model(rl.m, be)
                  IN IF ~TruthyStr(wm.ret)
                     THEN Return(Show(wm.m, MsgNoModel), "no_model", NoneVal)
                     ELSE quiz_from_backend(wm.m, be)

Fallback4 ==
  Arr(<<"Python Programming", "Data Science Basics", "Web Development",
        "Machine Learning Introduction">>)

Fallback5 ==
  Arr(<<"Python Programming", "Data Science Basics", "Web Development",
        "Machine Learning Introduction", "AI Fundamentals">>)

\* lines 333-344 of get_recommendations: the call, the decoding, the bare
\* except
recommendations_from_backend(m, be) ==
  LET d == decode_response(be, "recs")
      m1 == [generate_content(m) EXCEPT !.run.decoded = d.value]
  IN IF d.ok THEN Return(m1, "ok", d.value)
     ELSE Return(m1, "fallback5", Fallback5)

\* get_recommendations that resolves the model before it looks at the history
get_recommendations_resolves_first(m, be, user_history, preferences) ==
  LET m0 == [StartOp(m, "get_recommendations") EXCEPT
               !.run.history = user_history]
      wm == get_working_model(m0, be)
  IN IF ~configure_gemini(m0.ss) \/ user_history = <<>>
     THEN Return(wm.m, "fallback4", Fallback4)
     ELSE IF ~TruthyStr(wm.ret)
          THEN Return(wm.m, "fallback5", Fallback5)
          ELSE recommendations_from_backend(wm.m, be)

get_recommendations(m, be, user_history, preferences) ==
  LET m0 == [StartOp(m, "get_recommendations") EXCEPT
               !.run.history = user_history]
  IN IF ~configure_gemini(m0.ss) \/ user_history = <<>>
     THEN Return(m0, "fallback4", Fallback4)
     ELSE LET wm == get_working_model(m0, be)
          IN IF ~TruthyStr(wm.ret)
             THEN Return(wm.m, "fallback5", Fallback5)
             ELSE recommendations_from_backend(wm.m, be)

(***************************************************************************)
(* The pages.  Each is the page function run from its top, with at most    *)
(* one button pressed.                                                     *)
(***************************************************************************)
EmptyMap == [u \in {} |-> 0]

Num(x) == [kind |-> "number", val |-> x]

\* auth_page, "Login" pressed; st.rerun() is left to the action
\* login that does not call initialize_user_data
login_without_record(ss, username, password) ==
  IF username \in DOMAIN ss.users /\ ss.users[username] = hash_password(password)
  THEN [ss EXCEPT !.logged_in = TRUE, !.current_user = username]
  ELSE ss

login(ss, username, password) ==
  IF username \in DOMAIN ss.users /\ ss.users[username] = hash_password(password)
  THEN initialize_user_data(
         [ss EXCEPT !.logged_in = TRUE, !.current_user = username], username)
  ELSE ss

\* auth_page, "Sign Up" pressed
sign_up(ss, new_username, new_password, confirm_password, email) ==
  IF new_username # "" /\ new_password # "" /\ email # ""
     /\ new_username \notin DOMAIN ss.users
     /\ new_password = confirm_password
  THEN [ss EXCEPT !.users = (new_username :> hash_password(new_password)) @@ @]
  ELSE ss

\* dashboard(), no button pressed
dashboard(m, t, be) ==
  IF ~TruthyStr(m.ss.api_key) THEN m
  ELSE IF m.ss.current_user \notin DOMAIN m.ss.user_data THEN Raise(m)
  ELSE LET user_stats == m.ss.user_data[m.ss.current_user]
           history == [i \in 1..Len(user_stats.courses) |->
                         user_stats.courses[i].val["user_topic"]]
           r == get_recommendations(m, be, history,
                                    user_stats.learning_preferences)
       IN \* st.columns(min(len(recommendations), 3)), recommendations[:3]
          IF r.ret.kind = "array" /\ Len(r.ret.val) > 0
          THEN r.m ELSE Raise(r.m)

\* dashboard(), "Save API Key" pressed; st.rerun() is left to the action
save_api_key(m, api_key_input) ==
  [m EXCEPT !.ss.api_key = api_key_input, !.ss.working_model = None,
            !.key_set_by = "save"]

\* dashboard(), "Test API Key" pressed
test_api_key(m, be, api_key_input) ==
  LET r == test_api_key_and_list_models(
             [m EXCEPT !.ss.api_key = api_key_input, !.key_set_by = "test"],
             be)
  IN IF r.ret.models # <<>> THEN r.m
     ELSE Show(r.m, <<"API Key test failed", r.ret.error>>)

\* the keys a rendered course must have: lines 509-522
CourseKeys == {"title", "description", "modules", "learning_outcomes"}

\* course_generator(), "Generate Course" pressed
course_generator(m, t, be, topic, level) ==
  LET r == generate_course(m, t, be, topic, level)
      user == r.m.ss.current_user
  IN IF ~Truthy(r.ret) THEN r.m
     ELSE LET m1 == [r.m EXCEPT
                       !.ss.user_data[user].courses = Append(@, r.ret),
                       !.ss.user_data[user].courses_completed = @ + 1]
          IN IF CourseKeys \subseteq DOMAIN r.ret.val THEN m1 ELSE Raise(m1)

\* quiz_page(), lines 534-537
quiz_init(ss) ==
  IF ss.current_quiz.kind = "missing"
  THEN [ss EXCEPT !.current_quiz = NoneVal, !.quiz_answers = <<>>,
                  !.quiz_score = NoneVal]
  ELSE ss

\* the quiz can be rendered: quiz['questions'] is there
renderable(quiz) == quiz.kind = "object" /\ "questions" \in DOMAIN quiz.val

\* what the radio buttons of a quiz can hold: one option index per question
AnswerSheets(quiz) ==
  IF ~renderable(quiz) \/ quiz.val["questions"] = <<>> THEN {<<>>}
  ELSE [1..Len(quiz.val["questions"]) ->
          1..Len(quiz.val["questions"][1].options)]

DefaultSheet(quiz) ==
  IF ~renderable(quiz) THEN <<>>
  ELSE [i \in 1..Len(quiz.val["questions"]) |-> 1]

\* quiz_page(), lines 569-577: quiz_answers[idx] = answer[0]
render_quiz(m, sheet) ==
  LET quiz == m.ss.current_quiz
  IN IF ~renderable(quiz) THEN Raise(m)
     ELSE [m EXCEPT !.ss.quiz_answers =
             [i \in 1..Len(quiz.val["questions"]) |->
                quiz.val["questions"][i].options[sheet[i]][1]]]

\* quiz_page(), no button pressed
quiz_page(m, sheet) ==
  LET m0 == [m EXCEPT !.ss = quiz_init(@)]
  IN IF m0.ss.current_quiz.kind = "None" THEN m0 ELSE render_quiz(m0, sheet)

\* quiz_page(), "Generate Quiz" pressed; st.rerun() is left to the action
quiz_generate(m, t, be, quiz_topic) ==
  LET m0 == [m EXCEPT !.ss = quiz_init(@)]
      r == generate_quiz(m0, t, be)
  IN IF ~Truthy(r.ret) THEN r.m
     ELSE [r.m EXCEPT !.ss.current_quiz = r.ret,
                      !.ss.quiz_answers = <<>>,
                      !.ss.quiz_topic = quiz_topic,
                      !.run.quiz_by = r.m.ss.current_user]

\* the number of answers equal to the question's 'correct'
RECURSIVE count_correct(_, _, _)
count_correct(questions, answers, i) ==
  IF i > Len(questions) THEN 0
  ELSE (IF i \in DOMAIN answers /\ answers[i] = questions[i].correct
        THEN 1 ELSE 0) + count_correct(questions, answers, i + 1)

\* score_of with an integer division: (correct // n) * 100
score_of_integer_division(correct, n) == (correct \div n) * 100 * ScoreScale

\* (correct / len(quiz['questions'])) * 100, in units of 1/ScoreScale
score_of(correct, n) == (correct * 100 * ScoreScale) \div n

\* quiz_submit that stores the score as the total instead of adding it
quiz_submit_overwrites_total(m, t, sheet) ==
  LET m0 == render_quiz(m, sheet)
      questions == m0.ss.current_quiz.val["questions"]
      correct == count_correct(questions, m0.ss.quiz_answers, 1)
      score == score_of(correct, Len(questions))
      user == m0.ss.current_user
  IN IF m0.run.raised THEN m0
     ELSE IF Len(questions) = 0 THEN Raise(m0)
     ELSE [m0 EXCEPT
             !.ss.quiz_score = Num(score),
             !.ss.user_data[user].quizzes_taken = @ + 1,
             !.ss.user_data[user].total_score = score,
             !.ss.user_data[user].quiz_history =
                Append(@, [topic |-> m0.ss.quiz_topic, score |-> score,
                           date |-> minute_of(t)])]

\* quiz_submit that folds the attempt into the record of every user
quiz_submit_records_for_all(m, t, sheet) ==
  LET m0 == render_quiz(m, sheet)
      questions == m0.ss.current_quiz.val["questions"]
      correct == count_correct(questions, m0.ss.quiz_answers, 1)
      score == score_of(correct, Len(questions))
      attempt == [topic |-> m0.ss.quiz_topic, score |-> score,
                  date |-> minute_of(t)]
  IN IF m0.run.raised THEN m0
     ELSE IF Len(questions) = 0 THEN Raise(m0)
     ELSE [m0 EXCEPT
             !.ss.quiz_score = Num(score),
             !.ss.user_data =
                [u \in DOMAIN @ |->
                   [@[u] EXCEPT !.quizzes_taken = @ + 1,
                                !.total_score = @ + score,
                                !.quiz_history = Append(@, attempt)]]]

\* quiz_page(), "Submit Quiz" pressed: lines 581-597
quiz_submit(m, t, sheet) ==
  LET m0 == render_quiz(m, sheet)
      questions == m0.ss.current_quiz.val["questions"]
      correct == count_correct(questions, m0.ss.quiz_answers, 1)
      score == score_of(correct, Len(questions))
      user == m0.ss.current_user
  IN IF m0.run.raised THEN m0
     ELSE IF Len(questions) = 0 THEN Raise(m0)
     ELSE [m0 EXCEPT
             !.ss.quiz_score = Num(score),
             !.ss.user_data[user].quizzes_taken = @ + 1,
             !.ss.user_data[user].total_score = @ + score,
             !.ss.user_data[user].quiz_history =
                Append(@, [topic |-> m0.ss.quiz_topic, score |-> score,
                           date |-> minute_of(t)])]

\* quiz_page(), "New Quiz" pressed; st.rerun() is left to the action
new_quiz(m, sheet) ==
  LET m0 == render_quiz(m, sheet)
  IN IF m0.run.raised THEN m0
     ELSE [m0 EXCEPT !.ss.current_quiz = NoneVal, !.ss.quiz_answers = <<>>,
                     !.ss.quiz_score = NoneVal,
                     !.run.quiz_by = None]

\* profile_page(), "Save Preferences" pressed
save_preferences(ss, prefs) ==
  [ss EXCEPT !.user_data[ss.current_user].learning_preferences = prefs]

\* main(), "Logout" pressed; st.rerun() is left to the action
logout(ss) == [ss EXCEPT !.logged_in = FALSE, !.current_user = None]

(***************************************************************************)
(* The environment: the user's inputs, the clock and the backend.          *)
(***************************************************************************)
Usernames == {"alice", "bob"}
Passwords == {"pw", "pw2"}
ApiKeys == {"", "k1", "k2"}
Topics == {"Python"}
Levels == {"Beginner"}
\* the clock's steps, in ticks: 30 seconds and 30.5 seconds.  30 seconds is
\* inside a window, twice 30 is exactly 60 seconds after its start, 30 and
\* 30.5 is past it
Deltas == {30 * Second, 30 * Second + 1}

\* steps that end inside the window's last second: 30 seconds, and 59.5
\* seconds
FineDeltas == {30 * Second, 59 * Second + 1}

Entry(base, methods) ==
  [name |-> [prefix |-> "models/", base |-> base], methods |-> methods]

Entries ==
  {Entry("gemini-1.5-flash", {"generateContent"}),
   Entry("gemini-pro", {"generateContent"}),
   Entry("custom-a", {"generateContent"}),
   Entry("gemini-1.5-flash-8b", {"embedContent"})}

MaxCatalog == 2

RECURSIVE SeqsUpTo(_, _)
SeqsUpTo(S, n) ==
  IF n = 0 THEN {<<>>}
  ELSE SeqsUpTo(S, n - 1) \cup
       {Append(q, e) : q \in {x \in SeqsUpTo(S, n - 1) : Len(x) = n - 1},
                       e \in S}

NoDup(q) == \A i, j \in 1..Len(q) : i # j => q[i] # q[j]

ListingOf(entries) == [ok |-> TRUE, entries |-> entries, error |-> None]
ListingError == [ok |-> FALSE, entries |-> <<>>, error |-> "API key not valid"]

Listings ==
  {ListingOf(q) : q \in {x \in SeqsUpTo(Entries, MaxCatalog) : NoDup(x)}}
  \cup {ListingError}

FlashListing == ListingOf(<<Entry("gemini-1.5-flash", {"generateContent"})>>)

ReplyOf(text) == [ok |-> TRUE, text |-> text, error |-> None]
ReplyError == [ok |-> FALSE, text |-> <<>>, error |-> "503 unavailable"]
Fenced(tok) == <<Fence, "json", WS, tok, WS, Fence>>

Replies ==
  {ReplyError, ReplyOf(Fenced("{course}")), ReplyOf(<<"{course-no-title}">>),
   ReplyOf(Fenced("{quiz3}")), ReplyOf(<<"{quiz1}">>), ReplyOf(<<"{quiz0}">>),
   ReplyOf(Fenced("[recs]")), ReplyOf(<<"{trunc">>)}

RateReplies == {ReplyError, ReplyOf(Fenced("{course}"))}

\* the prompts: course outline, quiz, recommendations
PromptKinds == {"course", "quiz", "recs"}

\* the backend answers every kind of prompt with r
AllReplies(r) == [k \in PromptKinds |-> r]

\* the backend answers every prompt with what it asks for
GoodReplies ==
  [course |-> ReplyOf(Fenced("{course}")), quiz |-> ReplyOf(<<"{quiz1}">>),
   recs |-> ReplyOf(Fenced("[recs]"))]

\* the backend answers every prompt with JSON of another shape than asked
ShapeReplies ==
  [course |-> ReplyOf(<<"{course-no-title}">>),
   quiz |-> ReplyOf(Fenced("{quiz-no-questions}")),
   recs |-> ReplyOf(<<"{course}">>)]

\* the catalogs and the answers that make each step of an operation fail
OutcomeListings == {FlashListing, ListingError, ListingOf(<<>>)}

OutcomeReplies ==
  {GoodReplies, [GoodReplies EXCEPT !.recs = ReplyError],
   AllReplies(ReplyError), AllReplies(ReplyOf(<<"{trunc">>)), ShapeReplies}

\* the texts the backend can answer with: white space, fence markers,
\* language tags and at most one other token, a JSON document or a
\* truncated one
TextTokens == {WS, Fence, "json", "python", "{course}", "{quiz1}", "{trunc"}

Markers == {WS, Fence, "json", "python"}

ParseTexts ==
  {x \in SeqsUpTo(TextTokens, MaxText) :
     Cardinality({i \in 1..Len(x) : x[i] \notin Markers}) <= 1}

\* the backend answers the quiz prompt with three questions, or with one
ScoreReplies ==
  {[GoodReplies EXCEPT !.quiz = ReplyOf(Fenced("{quiz3}"))], GoodReplies}

(***************************************************************************)
(* Initial states.                                                         *)
(***************************************************************************)
\* "Initialize session state": lines 84-97
InitSession ==
  [users |-> EmptyMap, logged_in |-> FALSE, current_user |-> None,
   user_data |-> EmptyMap, api_key |-> None, last_request_time |-> 0,
   request_count |-> 0, working_model |-> Missing,
   current_quiz |-> MissingVal, quiz_answers |-> <<>>,
   quiz_score |-> MissingVal, quiz_topic |-> Missing]

Init ==
  /\ session_state = InitSession
  /\ now = StartTime
  /\ backend \in [listing : Listings, reply : [PromptKinds -> Replies]]
  /\ run = NewRun("start", StartTime)
  /\ grants = <<>>
  /\ model_key = None
  /\ key_set_by = "none"

\* alice has signed up and logged in
SessionLoggedIn ==
  login(sign_up(InitSession, "alice", "pw", "pw", "a@b"), "alice", "pw")

\* and then saved the key k1
SessionWithKey ==
  [SessionLoggedIn EXCEPT !.api_key = "k1", !.working_model = None]

InitRate ==
  /\ session_state = SessionWithKey
  /\ now = StartTime
  /\ backend = [listing |-> FlashListing, reply |-> AllReplies(ReplyError)]
  /\ run = NewRun("start", StartTime)
  /\ grants = <<>>
  /\ model_key = None
  /\ key_set_by = "save"

(***************************************************************************)
(* Actions.                                                                *)
(***************************************************************************)
Start(handler) ==
  [Machine EXCEPT
     !.run = [NewRun(handler, now) EXCEPT !.quiz_by = run.quiz_by]]

WithinCaps(ss) ==
  /\ ss.request_count <= MaxCount
  /\ \A u \in DOMAIN ss.user_data :
       /\ Len(ss.user_data[u].courses) <= MaxCourses
       /\ Len(ss.user_data[u].quiz_history) <= MaxHistory

Commit(m) ==
  /\ WithinCaps(m.ss)
  /\ session_state' = m.ss
  /\ run' = m.run
  /\ grants' = m.grants
  /\ model_key' = m.model_key
  /\ key_set_by' = m.key_set_by
  /\ UNCHANGED <<now, backend>>

HasQuiz == session_state.current_quiz.kind \notin {"missing", "None"}

\* time passes
Tick ==
  \E d \in Deltas :
    /\ now + d <= MaxTime
    /\ now' = now + d
    /\ grants' = recent(grants, now + d)
    /\ UNCHANGED <<session_state, backend, run, model_key, key_set_by>>

\* time passes, up to the last half second of a window
TickFine ==
  \E d \in FineDeltas :
    /\ now + d <= MaxTime
    /\ now' = now + d
    /\ grants' = recent(grants, now + d)
    /\ UNCHANGED <<session_state, backend, run, model_key, key_set_by>>

\* the backend changes what it answers
SetReply(S) ==
  \E k \in PromptKinds, r \in S :
    /\ backend' = [backend EXCEPT !.reply[k] = r]
    /\ UNCHANGED <<session_state, now, run, grants, model_key, key_set_by>>

SetListing ==
  \E l \in Listings :
    /\ backend' = [backend EXCEPT !.listing = l]
    /\ UNCHANGED <<session_state, now, run, grants, model_key, key_set_by>>

SignUp ==
  /\ ~session_state.logged_in
  /\ \E u \in Usernames \cup {""}, p \in Passwords, c \in Passwords,
        e \in {"", "a@b"} :
       Commit([Start("sign_up") EXCEPT !.ss = sign_up(@, u, p, c, e)])

\* a successful login reruns the script, which shows the dashboard
Login ==
  /\ ~session_state.logged_in
  /\ \E u \in Usernames, p \in Passwords :
       LET m == [Start("login") EXCEPT !.ss = login(@, u, p)]
       IN Commit(IF m.ss.logged_in THEN dashboard(m, now, backend) ELSE m)

Logout ==
  /\ session_state.logged_in
  /\ Commit([Start("logout") EXCEPT !.ss = logout(@)])

DashboardRender ==
  /\ session_state.logged_in
  /\ Commit(dashboard(Start("dashboard"), now, backend))

SaveApiKey ==
  /\ session_state.logged_in
  /\ ~TruthyStr(session_state.api_key)
  /\ \E k \in ApiKeys :
       Commit(dashboard(save_api_key(Start("save_api_key"), k), now,
                        backend))

\* the key form shown although a key is stored
TestApiKey_form_always_shown ==
  /\ session_state.logged_in
  /\ \E k \in ApiKeys :
       Commit(test_api_key(Start("test_api_key"), backend, k))

TestApiKey ==
  /\ session_state.logged_in
  /\ ~TruthyStr(session_state.api_key)
  /\ \E k \in ApiKeys :
       Commit(test_api_key(Start("test_api_key"), backend, k))

CourseGenerate ==
  /\ session_state.logged_in
  /\ \E topic \in Topics, level \in Levels :
       Commit(course_generator(Start("course_generator"), now, backend,
                               topic, level))

QuizRender ==
  /\ session_state.logged_in
  /\ \E sheet \in AnswerSheets(session_state.current_quiz) :
       Commit(quiz_page(Start("quiz_page"), sheet))

\* a generated quiz reruns the script, which shows the quiz
QuizGenerate ==
  /\ session_state.logged_in
  /\ ~HasQuiz
  /\ \E topic \in Topics :
       LET m == quiz_generate(Start("quiz_generate"), now, backend, topic)
       IN Commit(IF m.ss.current_quiz.kind # "None"
                 THEN render_quiz(m, DefaultSheet(m.ss.current_quiz))
                 ELSE m)

QuizSubmit ==
  /\ session_state.logged_in
  /\ HasQuiz
  /\ \E sheet \in AnswerSheets(session_state.current_quiz) :
       Commit(quiz_submit(Start("quiz_submit"), now, sheet))

\* the reset reruns the script, which shows the quiz form
NewQuiz ==
  /\ session_state.logged_in
  /\ HasQuiz
  /\ \E sheet \in AnswerSheets(session_state.current_quiz) :
       Commit(new_quiz(Start("new_quiz"), sheet))

SavePreferences ==
  /\ session_state.logged_in
  /\ \E prefs \in {<<>>, <<"Programming">>} :
       Commit([Start("save_preferences") EXCEPT
                 !.ss = save_preferences(@, prefs)])

Next ==
  \/ Tick
  \/ SetReply(Replies)
  \/ SetListing
  \/ SignUp
  \/ Login
  \/ Logout
  \/ DashboardRender
  \/ SaveApiKey
  \/ TestApiKey
  \/ CourseGenerate
  \/ QuizRender
  \/ QuizGenerate
  \/ QuizSubmit
  \/ NewQuiz
  \/ SavePreferences

Spec == Init /\ [][Next]_vars

\* the backend changes its catalog and its answers
SetBackend ==
  \E l \in OutcomeListings, r \in OutcomeReplies :
    /\ backend' = [listing |-> l, reply |-> r]
    /\ UNCHANGED <<session_state, now, run, grants, model_key, key_set_by>>

\* the rate limiter under load: one user, one key, the clock running
NextRate ==
  \/ Tick
  \/ SetReply(RateReplies)
  \/ DashboardRender
  \/ CourseGenerate
  \/ QuizGenerate

SpecRate == InitRate /\ [][NextRate]_vars

\* the resolver: one user, the key still to be entered, the catalog changing
InitModel ==
  /\ session_state = SessionLoggedIn
  /\ now = StartTime
  /\ backend \in [listing : Listings, reply : {AllReplies(ReplyError)}]
  /\ run = NewRun("start", StartTime)
  /\ grants = <<>>
  /\ model_key = None
  /\ key_set_by = "none"

NextModel ==
  \/ SetListing
  \/ SaveApiKey
  \/ TestApiKey
  \/ CourseGenerate

SpecModel == InitModel /\ [][NextModel]_vars

\* the progress store: two users, quizzes and courses, no clock
\* alice and bob have signed up; alice has logged in and saved the key k1
SessionTwoUsers ==
  [login(sign_up(sign_up(InitSession, "alice", "pw", "pw", "a@b"),
                 "bob", "pw2", "pw2", "a@b"), "alice", "pw")
     EXCEPT !.api_key = "k1", !.working_model = None]

InitProgress ==
  /\ session_state = SessionTwoUsers
  /\ now = StartTime
  /\ backend = [listing |-> FlashListing, reply |-> GoodReplies]
  /\ run = NewRun("start", StartTime)
  /\ grants = <<>>
  /\ model_key = None
  /\ key_set_by = "save"

NextProgress ==
  \/ Login
  \/ Logout
  \/ CourseGenerate
  \/ QuizGenerate
  \/ QuizSubmit
  \/ NewQuiz

SpecProgress == InitProgress /\ [][NextProgress]_vars

\* the outcomes of the three operations: one user, one key, a backend that
\* fails in every way
InitOutcome ==
  /\ session_state = SessionWithKey
  /\ now = StartTime
  /\ backend \in [listing : OutcomeListings, reply : OutcomeReplies]
  /\ run = NewRun("start", StartTime)
  /\ grants = <<>>
  /\ model_key = None
  /\ key_set_by = "save"

NextOutcome ==
  \/ SetBackend
  \/ DashboardRender
  \/ SavePreferences
  \/ CourseGenerate
  \/ QuizGenerate
  \/ NewQuiz

SpecOutcome == InitOutcome /\ [][NextOutcome]_vars

\* the parsing of the answer: one user, one key, one model, and a backend
\* that answers with any text
InitParse ==
  /\ session_state = SessionWithKey
  /\ now = StartTime
  /\ backend \in {[listing |-> FlashListing, reply |-> AllReplies(ReplyOf(x))] :
                    x \in ParseTexts}
  /\ run = NewRun("start", StartTime)
  /\ grants = <<>>
  /\ model_key = None
  /\ key_set_by = "save"

NextParse ==
  \/ CourseGenerate
  \/ QuizGenerate

SpecParse == InitParse /\ [][NextParse]_vars

\* the scoring of a quiz: one user, quizzes of three questions and of one
InitScore ==
  /\ session_state = SessionWithKey
  /\ now = StartTime
  /\ backend \in {[listing |-> FlashListing, reply |-> r] : r \in ScoreReplies}
  /\ run = NewRun("start", StartTime)
  /\ grants = <<>>
  /\ model_key = None
  /\ key_set_by = "save"

NextScore ==
  \/ QuizGenerate
  \/ QuizRender
  \/ QuizSubmit
  \/ NewQuiz

SpecScore == InitScore /\ [][NextScore]_vars

\* the rate limiter's report: one user, one key, the clock stopping half a
\* second before the window ends
NextWait ==
  \/ TickFine
  \/ CourseGenerate

SpecWait == InitRate /\ [][NextWait]_vars

\* the accounts: a new session, sign-ups, logins and logouts
InitAuth ==
  /\ session_state = InitSession
  /\ now = StartTime
  /\ backend = [listing |-> FlashListing, reply |-> GoodReplies]
  /\ run = NewRun("start", StartTime)
  /\ grants = <<>>
  /\ model_key = None
  /\ key_set_by = "none"

NextAuth ==
  \/ SignUp
  \/ Login
  \/ Logout
  \/ DashboardRender
  \/ SaveApiKey

SpecAuth == InitAuth /\ [][NextAuth]_vars

(***************************************************************************)
(* The rate limiter (claims C1 to C6, checked under SpecRate).             *)
(***************************************************************************)
Elapsed == run.rl_t - run.rl_start0

\* the permits granted in the window opened at last_request_time, while it
\* was less than 60 seconds old
InWindow ==
  {i \in 1..Len(grants) :
     /\ grants[i] >= session_state.last_request_time
     /\ grants[i] < session_state.last_request_time + Window}

\* C1: in every reachable state the request counter of the rate window is at
\* most 10, also after a call made exactly 60 seconds after windowStart.
C1_CountAtMostQuota == session_state.request_count <= Quota

\* C2: every content-generation call of generate_course, generate_quiz and
\* get_recommendations is made by an operation that was granted a permit
\* by rate_limit_check before it.
C2_EveryGenerationGated == run.ungated = 0

\* C3: with exactly 10 permits granted in the current window, a
\* rate_limit_check made less than 60 seconds after windowStart is denied and
\* leaves the counter and windowStart as they were.
C3_EleventhDenied ==
  (run.rl_called /\ run.rl_count0 = Quota /\ Elapsed < Window)
    => /\ ~run.rl_allowed
       /\ session_state.request_count = run.rl_count0
       /\ session_state.last_request_time = run.rl_start0

C3_Witness ==
  /\ run.rl_called /\ run.rl_count0 = Quota /\ Elapsed < Window
  /\ Elapsed > 0
  /\ ~run.rl_allowed

\* C4: a rate_limit_check made more than 60 seconds after windowStart is
\* allowed whatever the counter was, and leaves the counter at 1 and
\* windowStart at the time of the call.
C4_ResetAfterWindow ==
  (run.rl_called /\ Elapsed > Window)
    => /\ run.rl_allowed
       /\ session_state.request_count = 1
       /\ session_state.last_request_time = run.rl_t

\* one tick past the window, with the quota used up
C4_Witness ==
  /\ run.rl_called /\ Elapsed = Window + 1 /\ run.rl_count0 >= Quota
  /\ run.rl_allowed
  /\ session_state.request_count = 1

\* C5 as claimed: the window slides, so the permits granted inside any
\* interval of 60 seconds are at most 10 (grants holds the permits of the
\* 60 seconds that end now).
C5_SlidingWindow == Len(grants) <= Quota

\* C5 as amended: the window is fixed; at most 10 permits are granted at
\* times t with windowStart <= t < windowStart + 60.
C5_FixedWindow == Cardinality(InWindow) <= Quota

\* a full window, and more than 10 permits in the last 60 seconds
C5_Witness ==
  /\ Cardinality(InWindow) = Quota
  /\ Len(grants) > Quota
  /\ session_state.request_count = Quota

\* C6: with 10 permits held and less than 60 seconds elapsed since
\* windowStart, generate_course and generate_quiz fail and make no backend
\* call of any kind.
C6_DeniedWithoutBackend ==
  (/\ run.op \in {"generate_course", "generate_quiz"}
   /\ run.op_count0 = Quota
   /\ run.t - run.op_start0 < Window)
    => /\ run.outcome \in {"rate_limited", "no_key"}
       /\ run.listCalls = 0
       /\ run.genCalls = 0

C6_Witness ==
  /\ run.op = "generate_quiz"
  /\ run.op_count0 = Quota
  /\ run.t - run.op_start0 < Window
  /\ run.outcome = "rate_limited"
  /\ run.genCalls = 0

(***************************************************************************)
(* The model resolver (claims C7 to C9, checked under SpecModel).          *)
(***************************************************************************)
Range(q) == {q[i] : i \in 1..Len(q)}

PreferredPresent(models) ==
  {i \in 1..Len(Preferred) : Preferred[i] \in Range(models)}

\* the selection policy as the specification words it
Policy(models) ==
  IF PreferredPresent(models) # {}
  THEN Preferred[CHOOSE i \in PreferredPresent(models) :
                   \A j \in PreferredPresent(models) : i <= j]
  ELSE IF models # <<>> THEN models[1] ELSE None

\* C7: for every catalog the listing returns, get_working_model returns the
\* earliest entry of the preference list present in the catalog, whatever
\* the catalog's order; the first catalog entry if none is preferred; and no
\* model if the catalog is empty.
C7_SelectionPolicy ==
  (run.gwm_called /\ run.gwm_listed)
    => /\ run.gwm_ret = Policy(run.gwm_models)
       /\ (run.gwm_models = <<>> => run.gwm_ret = None)
       /\ (run.gwm_ret # None => session_state.working_model = run.gwm_ret)

\* two preferred entries, the lower-priority one first in the catalog
C7_Witness ==
  /\ run.gwm_called /\ run.gwm_listed
  /\ run.gwm_models = <<"gemini-pro", "gemini-1.5-flash">>
  /\ run.gwm_ret = "gemini-1.5-flash"

\* C8: once get_working_model has returned a model, every later call returns
\* the same model and makes no model-listing call, as long as the memoized
\* model is not explicitly invalidated, whatever the backend's catalog has
\* become.
C8_MemoizedModelReused ==
  [][/\ TruthyStr(session_state.working_model)
        => session_state'.working_model \in {session_state.working_model, None}
     /\ (run'.gwm_called /\ TruthyStr(run'.gwm_memo0))
        => /\ run'.gwm_ret = run'.gwm_memo0
           /\ ~run'.gwm_listed
           /\ run'.listCalls = 0
           /\ session_state'.working_model = run'.gwm_memo0]_vars

\* a call served from the memo while the backend would now list another model
C8_Witness ==
  /\ run.gwm_called /\ TruthyStr(run.gwm_memo0)
  /\ run.gwm_ret = run.gwm_memo0
  /\ backend.listing.ok
  /\ select_model(listed_models(backend.listing.entries))
       \notin {None, run.gwm_memo0}

\* C9: replacing the api key (Save API Key, Test API Key) leaves no model
\* memoized under the old key: in every reachable state a memoized model was
\* resolved under the key now stored.
C9_ModelUnderCurrentKey ==
  TruthyStr(session_state.working_model)
    => model_key = session_state.api_key

\* a model memoized under a key that Test API Key stored
C9_Witness ==
  /\ key_set_by = "test"
  /\ TruthyStr(session_state.working_model)
  /\ model_key = session_state.api_key

(***************************************************************************)
(* The progress store (claim C10, checked under SpecProgress).             *)
(***************************************************************************)
RECURSIVE SumScores(_)
SumScores(history) ==
  IF history = <<>> THEN 0
  ELSE history[1].score + SumScores(Tail(history))

\* C10: for every user, after any sequence of quiz submissions, logins,
\* logouts and course generations, total_score is the sum of the scores in
\* the user's quiz_history and quizzes_taken is its length.
C10_TotalsMatchHistory ==
  \A u \in DOMAIN session_state.user_data :
    LET d == session_state.user_data[u]
    IN /\ d.total_score = SumScores(d.quiz_history)
       /\ d.quizzes_taken = Len(d.quiz_history)

\* two submissions with different scores by a user who also has a course,
\* while another user has a submission of their own
C10_Witness ==
  \E u, v \in DOMAIN session_state.user_data :
    LET d == session_state.user_data[u]
    IN /\ u # v
       /\ Len(d.quiz_history) = 2
       /\ d.quiz_history[1].score # d.quiz_history[2].score
       /\ d.total_score > 0
       /\ Len(d.courses) = 1
       /\ Len(session_state.user_data[v].quiz_history) = 1

(***************************************************************************)
(* The outcomes of the operations (claims C11 to C14, C17 and C18, checked *)
(* under SpecOutcome).                                                     *)
(***************************************************************************)
\* the part of a user's record that courses and quiz attempts are folded in
Progress(ss, u) ==
  [f \in {"courses", "courses_completed", "quiz_history", "total_score",
          "quizzes_taken"} |-> ss.user_data[u][f]]

IsValue(v) == v.kind \notin {"missing", "None"}

\* the top-level shape the prompt of an operation asks for
WellShaped(op, v) ==
  CASE op = "generate_course" ->
         v.kind = "object" /\ {"title", "modules"} \subseteq DOMAIN v.val
    [] op = "generate_quiz" ->
         v.kind = "object" /\ "questions" \in DOMAIN v.val
    [] op = "get_recommendations" -> v.kind = "array"
    [] OTHER -> TRUE

\* what an operation hands to its caller when it fails
FailureOf(op) ==
  IF op = "get_recommendations" THEN {Fallback4, Fallback5} ELSE {NoneVal}

\* a step of generate_course or generate_quiz failed: the rate limiter
\* denied, no model resolved, the backend or the decoding raised, or the
\* decoded answer has not the shape asked for
GenerationFailed ==
  /\ run.op \in {"generate_course", "generate_quiz"}
  /\ \/ run.outcome \in {"rate_limited", "no_model", "error"}
     \/ IsValue(run.decoded) /\ ~WellShaped(run.op, run.decoded)

\* C11: when any step of generate_course or generate_quiz fails, the whole
\* UI action that invoked it leaves the progress record (courses,
\* courses_completed, quiz_history, total_score, quizzes_taken) of every
\* user unchanged.
C11_FailureLeavesProgress ==
  [][GenerationFailed' =>
       \A u \in DOMAIN session_state.user_data :
         Progress(session_state', u) = Progress(session_state, u)]_vars

\* C12: when the answer decodes as JSON but has not the top-level shape asked
\* for, the operation returns its failure value instead of the decoded value,
\* and no exception ends the UI action.
C12_ShapeChecked ==
  (run.op # "none" /\ IsValue(run.decoded)
     /\ ~WellShaped(run.op, run.decoded))
    => /\ run.ret \in FailureOf(run.op)
       /\ ~run.raised

\* C13: in every path where get_recommendations does not return the
\* backend's parsed answer it returns one and the same default list, the one
\* it returns for an empty history.
C13_OneDefaultList ==
  (run.op = "get_recommendations" /\ run.outcome # "ok")
    => run.ret = Fallback4

\* C14: with an empty history get_recommendations returns the 4-item list
\* and calls neither the model listing nor the content generation, whatever
\* the preferences and whatever model is memoized.
C14_EmptyHistoryNoBackend ==
  (run.op = "get_recommendations" /\ run.history = <<>>)
    => /\ run.ret = Fallback4
       /\ Len(run.ret.val) = 4
       /\ run.listCalls = 0
       /\ run.genCalls = 0
       /\ ~run.gwm_called

\* no course yet, preferences saved, no model memoized and a catalog that
\* the resolver could list
C14_Witness ==
  /\ run.op = "get_recommendations" /\ run.history = <<>>
  /\ run.ret = Fallback4
  /\ session_state.user_data[session_state.current_user]
       .learning_preferences # <<>>
  /\ ~TruthyStr(session_state.working_model)
  /\ backend.listing = FlashListing

\* C17: an invocation of generate_course, generate_quiz or
\* get_recommendations makes at most one content-generation call and at most
\* one model-listing call, whatever fails.
C17_NoRetry ==
  run.op # "none" => run.genCalls <= 1 /\ run.listCalls <= 1

\* a quiz whose answer could not be decoded, after one listing and one call
C17_Witness ==
  /\ run.op = "generate_quiz" /\ run.outcome = "error"
  /\ run.decoded = NoneVal
  /\ run.listCalls = 1 /\ run.genCalls = 1

\* what the caller of generate_course and generate_quiz gets to see
Seen == [ret |-> run.ret, messages |-> run.messages]

\* and what it sees when the catalog is empty
SeenNoModel == [ret |-> NoneVal, messages |-> {MsgNoModel}]

\* C18: a failure of the model listing reaches the caller of
\* generate_course and generate_quiz with the underlying message, as an
\* outcome that differs from the one of an empty catalog.
C18_ListingFailureSeen ==
  (/\ run.op \in {"generate_course", "generate_quiz"}
   /\ run.gwm_listed /\ run.gwm_error # None)
    => /\ Seen # SeenNoModel
       /\ \E msg \in run.messages : msg[2] = run.gwm_error

(***************************************************************************)
(* The quiz session and the users' records (claims C15 and C16, checked    *)
(* under SpecProgress).                                                    *)
(***************************************************************************)
\* C15: after the user has submitted the quiz or abandoned it (New Quiz,
\* logout) the session holds no current quiz, so that a generated quiz
\* yields at most one attempt.
C15_QuizDiscarded ==
  (run.handler \in {"quiz_submit", "new_quiz", "logout"} /\ ~run.raised)
    => ~HasQuiz

\* the user a script run acts for
Actor ==
  IF session_state.logged_in THEN session_state.current_user
  ELSE session_state'.current_user

\* C16: whatever the logins, logouts, generations and submissions, a step
\* made while user A is logged in (or logging in) changes no record but A's:
\* the record of every other user stays as it was.
C16_OnlyOwnRecord ==
  [][\A u \in DOMAIN session_state.user_data :
       u # Actor =>
         /\ u \in DOMAIN session_state'.user_data
         /\ session_state'.user_data[u] = session_state.user_data[u]]_vars

\* bob has just recorded something while alice has a course and an attempt
C16_Witness ==
  /\ run.handler \in {"quiz_submit", "course_generator"}
  /\ session_state.logged_in /\ session_state.current_user = "bob"
  /\ {"alice", "bob"} \subseteq DOMAIN session_state.user_data
  /\ Len(session_state.user_data["alice"].courses) = 1
  /\ Len(session_state.user_data["alice"].quiz_history) = 1
  /\ Len(session_state.user_data["bob"].quiz_history) = 2
  /\ Len(session_state.user_data["bob"].courses) = 0

(***************************************************************************)
(* The parsing of the backend's answer (claim C19, checked under           *)
(* SpecParse, where the backend's answer never changes).                   *)
(***************************************************************************)
\* the text the backend gave to the operation of this script run
AnswerText ==
  backend.reply[IF run.op = "generate_course" THEN "course" ELSE "quiz"].text

\* q is white space only
Blank(q) == \A i \in 1..Len(q) : q[i] = WS

\* text is the document tok, with white space around it at most
IsBare(text, tok) ==
  \E i \in 1..Len(text) :
    /\ text[i] = tok
    /\ Blank(SubSeq(text, 1, i - 1))
    /\ Blank(SubSeq(text, i + 1, Len(text)))

\* text is the document tok between a json opening fence and a closing fence
IsFenced(text, tok) ==
  /\ Len(text) >= 4
  /\ text[1] = Fence /\ text[2] = "json" /\ text[Len(text)] = Fence
  /\ IsBare(SubSeq(text, 3, Len(text) - 1), tok)

\* the JSON objects a course or a quiz is
ObjectTokens == {"{course}", "{quiz1}"}

\* C19: a JSON object between a json opening fence and a closing fence
\* decodes, in generate_course and generate_quiz, to the object itself; so
\* does the object with no fence; a truncated object makes the operation
\* return its failure value, and no exception ends the script run.
C19_FenceRoundTrip ==
  (run.op \in {"generate_course", "generate_quiz"} /\ run.genCalls = 1)
    => /\ \A tok \in ObjectTokens :
            (IsFenced(AnswerText, tok) \/ IsBare(AnswerText, tok))
              => /\ run.decoded = JsonDoc(tok)
                 /\ run.outcome = "ok"
                 /\ run.op = "generate_quiz" => run.ret = JsonDoc(tok)
                 /\ run.op = "generate_course" =>
                      \A k \in DOMAIN JsonDoc(tok).val :
                        run.ret.val[k] = JsonDoc(tok).val[k]
       /\ (\E i \in 1..Len(AnswerText) : AnswerText[i] = "{trunc")
            => /\ run.outcome = "error"
               /\ run.ret = NoneVal
               /\ ~run.raised

\* a fenced quiz decoded by generate_quiz
C19_Witness ==
  /\ run.op = "generate_quiz" /\ run.genCalls = 1
  /\ AnswerText = <<Fence, "json", "{quiz1}", Fence>>
  /\ run.outcome = "ok"
  /\ run.ret = Quiz1Doc

(***************************************************************************)
(* The score of a submission (claim C20, checked under SpecScore).         *)
(***************************************************************************)
\* one tenth of a percent, in the units of a score
Tenth == ScoreScale \div 10

Abs(x) == IF x < 0 THEN -x ELSE x

\* the questions of the quiz on the page, and how many answers on the page
\* are the question's correct letter
Questions(ss) == ss.current_quiz.val["questions"]

Matching(ss) ==
  Cardinality({i \in 1..Len(Questions(ss)) :
                 i \in DOMAIN ss.quiz_answers
                 /\ ss.quiz_answers[i] = Questions(ss)[i].correct})

Submitted == run.handler = "quiz_submit" /\ ~run.raised

LastAttempt(ss) ==
  LET h == ss.user_data[ss.current_user].quiz_history IN h[Len(h)]

\* C20 as claimed: the score stored by a submission with c of n answers
\* right is 100 c / n rounded to one decimal: a whole number of tenths, half
\* a tenth away from 100 c / n at most.
C20_StoredScoreRounded ==
  Submitted =>
    LET score == LastAttempt(session_state).score
        n == Len(Questions(session_state))
        c == Matching(session_state)
    IN /\ score % Tenth = 0
       /\ 2 * Abs(score * n - 100 * c * ScoreScale) <= n * Tenth

\* C20 as amended: a submission with c of n answers right (n >= 1) appends
\* exactly one attempt to the user's history, and the score stored in it is
\* 100 c / n as computed, not rounded, a value from 0 to 100.
C20_StoredScoreExact ==
  [][Submitted' =>
       LET u == session_state.current_user
           h == session_state.user_data[u].quiz_history
           score == LastAttempt(session_state').score
           n == Len(Questions(session_state'))
           c == Matching(session_state')
       IN /\ session_state'.current_user = u
          /\ session_state'.user_data[u].quiz_history
               = Append(h, LastAttempt(session_state'))
          /\ n >= 1
          /\ score * n = 100 * c * ScoreScale
          /\ score >= 0 /\ score <= 100 * ScoreScale
          /\ session_state'.quiz_score = Num(score)]_vars

\* 2 of 3 answers right: two thirds of 100 stored, which is not 66.7
C20_Witness ==
  /\ Submitted
  /\ Len(Questions(session_state)) = 3
  /\ Matching(session_state) = 2
  /\ 3 * LastAttempt(session_state).score = 200 * ScoreScale
  /\ LastAttempt(session_state).score # 667 * Tenth

(***************************************************************************)
(* The wait the rate limiter reports (claim C21, checked under SpecWait).  *)
(***************************************************************************)
\* the seconds the rate limiter's warning of this script run names
Reported ==
  {msg[2] : msg \in {x \in run.messages :
                       x[1] = "Rate limit protection: Please wait"}}

Denied == run.rl_called /\ ~run.rl_allowed

\* 60 seconds minus the time elapsed since windowStart, in ticks
WaitLeft == Window - Elapsed

\* a call with the counter at 10 or more is not allowed while time is left
NotAllowedWhileWaiting ==
  (run.rl_called /\ run.rl_count0 >= Quota /\ Elapsed >= 0 /\ WaitLeft > 0)
    => ~run.rl_allowed

\* C21 as claimed: a denial reports 60 minus the seconds elapsed since
\* windowStart, a value above 0 and at most 60; and a call with the counter
\* at 10 or more is not allowed while that value is above 0.
C21_WaitReported ==
  /\ Denied =>
       /\ Reported # {}
       /\ \A w \in Reported :
            w * Second = WaitLeft /\ w > 0 /\ w <= 60
  /\ NotAllowedWhileWaiting

\* C21 as amended: at a denial 60 minus the seconds elapsed is above 0 and
\* at most 60, and the report is that time cut to whole seconds, from 0 to
\* 60; and a call with the counter at 10 or more is not allowed while time
\* is left.
C21_WaitTruncated ==
  /\ Denied =>
       /\ WaitLeft > 0 /\ WaitLeft <= Window
       /\ Reported # {}
       /\ \A w \in Reported :
            /\ w * Second <= WaitLeft /\ WaitLeft < (w + 1) * Second
            /\ w >= 0 /\ w <= 60
  /\ NotAllowedWhileWaiting

\* a denial half a second before the window ends: 0 seconds reported
C21_Witness ==
  /\ Denied
  /\ WaitLeft = 1
  /\ Reported = {0}

(***************************************************************************)
(* The fences the cleaning accepts (claim C22, checked under SpecParse).   *)
(***************************************************************************)
Tags == {"json", "python"}

\* the answer as the cleaning first sees it: response.text.strip()
Answer == strip(AnswerText)

GenerationRan ==
  run.op \in {"generate_course", "generate_quiz"} /\ run.genCalls = 1

\* the answer was decoded
Decoded == IsValue(run.decoded)

BeginsWithFence(x) == Len(x) >= 1 /\ x[1] = Fence
EndsWithFence(x) == Len(x) >= 1 /\ x[Len(x)] = Fence

\* two fence markers lead the text, a language tag after the first or not
TwoLeadingFences(x) ==
  \/ Len(x) >= 2 /\ x[1] = Fence /\ x[2] = Fence
  \/ Len(x) >= 3 /\ x[1] = Fence /\ x[2] \in Tags /\ x[3] = Fence

\* C22 as claimed: a trailing fence is removed only when the text began with
\* a fence; an opening fence is removed with any language tag; a text with
\* two leading fence markers is rejected.
C22_OneFenceEachSide ==
  GenerationRan =>
    /\ (EndsWithFence(Answer) /\ ~BeginsWithFence(Answer)) => ~Decoded
    /\ \A tag \in Tags, tok \in ObjectTokens :
         (/\ Len(Answer) >= 4
          /\ Answer[1] = Fence /\ Answer[2] = tag
          /\ EndsWithFence(Answer)
          /\ IsBare(SubSeq(Answer, 3, Len(Answer) - 1), tok))
           => run.decoded = JsonDoc(tok)
    /\ TwoLeadingFences(Answer) => ~Decoded

\* what the cleaning removes at the head of the text, and at its end
Openings == {<<>>, <<Fence>>, <<Fence, "json">>, <<Fence, "json", Fence>>}
Closings == {<<>>, <<Fence>>}

\* x is the document tok between an opening and a closing
Accepted(x, tok) ==
  \E p \in Openings, q \in Closings :
    /\ Len(x) >= Len(p) + Len(q) + 1
    /\ SubSeq(x, 1, Len(p)) = p
    /\ SubSeq(x, Len(x) - Len(q) + 1, Len(x)) = q
    /\ IsBare(SubSeq(x, Len(p) + 1, Len(x) - Len(q)), tok)

\* C22 as amended: the cleaning removes a leading json fence, then a leading
\* bare fence, then a trailing fence, each whether or not the others were
\* there; the answer is decoded exactly when that leaves one JSON document
\* with white space around it at most, and decodes to that document.  So a
\* trailing fence is removed without a leading one, a fence with another
\* tag than json is rejected, and a json fence followed by a bare fence is
\* accepted.
C22_CleaningAsCoded ==
  GenerationRan =>
    /\ Decoded <=> \E tok \in ObjectTokens : Accepted(Answer, tok)
    /\ \A tok \in ObjectTokens :
         Accepted(Answer, tok) => run.decoded = JsonDoc(tok)

\* a quiz with a trailing fence and no leading one, decoded
C22_Witness ==
  /\ run.op = "generate_quiz" /\ run.genCalls = 1
  /\ AnswerText = <<"{quiz1}", Fence>>
  /\ run.ret = Quiz1Doc

(***************************************************************************)
(* The accounts (claim C23, checked under SpecAuth).                       *)
(***************************************************************************)
\* C23: whatever the sign-ups, logins and logouts, while a user is logged in
\* current_user is a registered user with an initialised record in
\* user_data, and the dashboard shown after the login reads no missing
\* record.
C23_LoggedInHasRecord ==
  session_state.logged_in =>
    /\ session_state.current_user \in DOMAIN session_state.users
    /\ session_state.current_user \in DOMAIN session_state.user_data
    /\ DOMAIN session_state.user_data[session_state.current_user]
         = DOMAIN NewUserData
    /\ ~run.raised

\* bob logs in after alice has logged in and out, and the dashboard of the
\* rerun reads bob's record
C23_Witness ==
  /\ session_state.logged_in /\ session_state.current_user = "bob"
  /\ run.handler = "login"
  /\ run.op = "get_recommendations"
  /\ DOMAIN session_state.user_data = {"alice", "bob"}
  /\ session_state.user_data["bob"] = NewUserData

(***************************************************************************)
(* The owner of the current quiz (claim C24, checked under SpecProgress).  *)
(***************************************************************************)
\* C24: the quiz a logged-in user finds in the session is one that user
\* generated, and an attempt is appended only to the history of the user who
\* generated the quiz: a quiz of A is neither presented to B nor submitted
\* by B after A logged out and B logged in.
C24_QuizOfItsUser ==
  /\ (session_state.logged_in /\ HasQuiz)
       => run.quiz_by = session_state.current_user
  /\ Submitted => run.quiz_by = session_state.current_user

(***************************************************************************)
(* Failed resolutions (claim C25, checked under SpecModel).                *)
(***************************************************************************)
\* the last get_working_model call returned no model
Unresolved == run.gwm_called /\ run.gwm_ret = None

\* the backend lists at least one model that generates content
CatalogUsable ==
  backend.listing.ok /\ listed_models(backend.listing.entries) # <<>>

\* C25: a call of get_working_model that returns no model (the listing
\* failed or listed no generating model) leaves working_model unset, and the
\* call that follows it (a step of the program, which leaves the backend as
\* it is) lists the backend again, once, and returns and memoizes a model if
\* the catalog has one by then.
C25_FailureNotMemoized ==
  [][/\ (run'.gwm_called /\ run'.gwm_ret = None)
          => ~TruthyStr(session_state'.working_model)
     /\ (Unresolved /\ backend' = backend /\ run'.gwm_called)
          => /\ ~TruthyStr(run'.gwm_memo0)
             /\ run'.gwm_listed /\ run'.listCalls = 1
             /\ CatalogUsable
                  => /\ run'.gwm_ret # None
                     /\ session_state'.working_model = run'.gwm_ret]_vars

\* a call that lists and resolves a model although an earlier request of the
\* window was granted under the same key: that request's resolution failed,
\* the key form being shown no more once a key is stored
C25_Witness ==
  /\ run.gwm_called /\ run.rl_allowed /\ run.rl_count0 >= 1
  /\ ~TruthyStr(run.gwm_memo0)
  /\ run.gwm_listed /\ run.listCalls = 1
  /\ run.gwm_ret # None
  /\ session_state.working_model = run.gwm_ret

====
